---- MODULE Spec2Model ----
(***************************************************************************)
(* Model of src/src/config.rs: PbftConfig, PbftConfig::default and         *)
(* PbftConfig::load_settings with its helpers.                             *)
(*                                                                         *)
(* A Rust String is a sequence of one-character strings, a PeerId          *)
(* (Vec<u8>) a sequence of numbers in 0..255, a Duration the record        *)
(* [secs, nanos] that std::time::Duration holds, a HashMap<String,String>  *)
(* a function whose DOMAIN is the set of keys present, and Option / Result *)
(* a sequence of length 0 (None / Err) or 1 (Some / Ok).                   *)
(***************************************************************************)
EXTENDS Integers, Sequences, FiniteSets, TLC

(***************************************************************************)
(* Characters                                                              *)
(***************************************************************************)
DecDigits == <<"0", "1", "2", "3", "4", "5", "6", "7", "8", "9">>
HexLower == DecDigits \o <<"a", "b", "c", "d", "e", "f">>
HexUpper == DecDigits \o <<"A", "B", "C", "D", "E", "F">>

IndexOf(table, c) == CHOOSE i \in 1..Len(table) : table[i] = c
InTable(table, c) == \E i \in 1..Len(table) : table[i] = c

None == <<>>
Some(v) == <<v>>
IsSome(o) == Len(o) = 1

\* HashMap::get
Get(map, key) == IF key \in DOMAIN map THEN Some(map[key]) ELSE None

(***************************************************************************)
(* <u64 as FromStr>::from_str, reached through setting.parse() at line 186 *)
(* with T = u64: an optional leading "+", then decimal digits only; the    *)
(* empty string, a lone sign, any other character and a value above        *)
(* u64::MAX are errors.                                                    *)
(***************************************************************************)
U64MaxDigits == <<"1", "8", "4", "4", "6", "7", "4", "4", "0", "7",
                  "3", "7", "0", "9", "5", "5", "1", "6", "1", "5">>

RECURSIVE StripZeros(_)
StripZeros(d) == IF d # <<>> /\ Head(d) = "0" THEN StripZeros(Tail(d)) ELSE d

RECURSIVE DigitsGreater(_, _)
\* a > b for two digit strings of the same length
DigitsGreater(a, b) ==
    IF a = <<>> THEN FALSE
    ELSE IF Head(a) # Head(b)
         THEN IndexOf(DecDigits, Head(a)) > IndexOf(DecDigits, Head(b))
         ELSE DigitsGreater(Tail(a), Tail(b))

PosOverflow(digits) ==
    LET d == StripZeros(digits)
    IN  \/ Len(d) > Len(U64MaxDigits)
        \/ Len(d) = Len(U64MaxDigits) /\ DigitsGreater(d, U64MaxDigits)

RECURSIVE DigitsValue(_, _)
DigitsValue(d, acc) ==
    IF d = <<>> THEN acc
    ELSE DigitsValue(Tail(d), acc * 10 + (IndexOf(DecDigits, Head(d)) - 1))

ParseU64(src) ==
    IF src = <<>> THEN None
    ELSE IF Len(src) = 1 /\ Head(src) \in {"+", "-"} THEN None
    ELSE LET digits == IF Head(src) = "+" THEN Tail(src) ELSE src
         IN  IF \E i \in 1..Len(digits) : ~InTable(DecDigits, digits[i]) THEN None
             ELSE IF PosOverflow(digits) THEN None
             ELSE Some(DigitsValue(StripZeros(digits), 0))

(***************************************************************************)
(* std::time::Duration                                                     *)
(***************************************************************************)
from_secs(n) == [secs |-> n, nanos |-> 0]
from_millis(n) == [secs |-> n \div 1000, nanos |-> (n % 1000) * 1000000]

\* DurationGe with the comparison of line 152 written > instead of >=
DurationGt(a, b) ==
    \/ a.secs > b.secs
    \/ a.secs = b.secs /\ a.nanos > b.nanos

\* the derived PartialOrd of Duration: secs first, then nanos
DurationGe(a, b) ==
    \/ a.secs > b.secs
    \/ a.secs = b.secs /\ a.nanos >= b.nanos

(***************************************************************************)
(* hex::decode                                                             *)
(***************************************************************************)
IsHexChar(c) == InTable(HexLower, c) \/ InTable(HexUpper, c)
HexVal(c) == IF InTable(HexLower, c) THEN IndexOf(HexLower, c) - 1
             ELSE IndexOf(HexUpper, c) - 1

HexDecode(s) ==
    IF Len(s) % 2 # 0 THEN None
    ELSE IF \E i \in 1..Len(s) : ~IsHexChar(s[i]) THEN None
    ELSE Some([i \in 1..(Len(s) \div 2) |->
                  16 * HexVal(s[2 * i - 1]) + HexVal(s[2 * i])])

(***************************************************************************)
(* serde_json::from_str::<Vec<String>>, called at line 229.                *)
(* A character that a TLA+ string cannot hold is one of the tokens below;  *)
(* none of them is a hexadecimal digit.  OtherChar stands for every        *)
(* character above U+007E.                                                 *)
(***************************************************************************)
Backspace == "<U+0008>"
GraveAccent == "<U+0060>"
OtherChar == "<U+....>"

\* the characters U+0000 .. U+001F, in order
AsciiControl ==
    <<"<U+0000>", "<U+0001>", "<U+0002>", "<U+0003>", "<U+0004>", "<U+0005>",
      "<U+0006>", "<U+0007>", Backspace, "\t", "\n", "<U+000B>",
      "\f", "\r", "<U+000E>", "<U+000F>", "<U+0010>", "<U+0011>",
      "<U+0012>", "<U+0013>", "<U+0014>", "<U+0015>", "<U+0016>", "<U+0017>",
      "<U+0018>", "<U+0019>", "<U+001A>", "<U+001B>", "<U+001C>", "<U+001D>",
      "<U+001E>", "<U+001F>">>

\* the characters U+0020 .. U+007E, in order
AsciiPrintable ==
    <<" ", "!", "\"", "#", "$", "%", "&", "'", "(", ")", "*", "+",
      ",", "-", ".", "/", "0", "1", "2", "3", "4", "5", "6", "7",
      "8", "9", ":", ";", "<", "=", ">", "?", "@", "A", "B", "C",
      "D", "E", "F", "G", "H", "I", "J", "K", "L", "M", "N", "O",
      "P", "Q", "R", "S", "T", "U", "V", "W", "X", "Y", "Z", "[",
      "\\", "]", "^", "_", GraveAccent, "a", "b", "c", "d", "e", "f", "g",
      "h", "i", "j", "k", "l", "m", "n", "o", "p", "q", "r", "s",
      "t", "u", "v", "w", "x", "y", "z", "{", "|", "}", "~">>

JsonWhitespace == {" ", "\n", "\t", "\r"}
\* what parse_str refuses unescaped inside a string: all below U+0020
ControlChars == {AsciiControl[i] : i \in 1..Len(AsciiControl)}

Err == [ok |-> FALSE]

\* parse_whitespace: the first position at or after i that holds no whitespace
SkipWhitespace(s, i) ==
    CHOOSE j \in i..(Len(s) + 1) :
        /\ \A k \in i..(j - 1) : s[k] \in JsonWhitespace
        /\ j = Len(s) + 1 \/ s[j] \notin JsonWhitespace

\* decode_hex_escape: the four hexadecimal digits at s[i..i+3]
HasHex4(s, i) == i + 3 <= Len(s) /\ \A k \in i..(i + 3) : IsHexChar(s[k])
Hex4(s, i) == 4096 * HexVal(s[i]) + 256 * HexVal(s[i + 1])
              + 16 * HexVal(s[i + 2]) + HexVal(s[i + 3])

CodePointChar(n) ==
    IF n < 32 THEN AsciiControl[n + 1]
    ELSE IF n <= 126 THEN AsciiPrintable[n - 31]
    ELSE OtherChar

SimpleEscape(e) ==
    CASE e = "\"" -> "\""
      [] e = "\\" -> "\\"
      [] e = "/" -> "/"
      [] e = "b" -> Backspace
      [] e = "f" -> "\f"
      [] e = "n" -> "\n"
      [] e = "r" -> "\r"
      [] e = "t" -> "\t"

RECURSIVE ParseStr(_, _, _)
\* parse_str: the string whose opening quote is at s[i - 1]
ParseStr(s, i, acc) ==
    IF i > Len(s) THEN Err
    ELSE IF s[i] = "\"" THEN [ok |-> TRUE, val |-> acc, next |-> i + 1]
    ELSE IF s[i] \in ControlChars THEN Err
    ELSE IF s[i] # "\\" THEN ParseStr(s, i + 1, Append(acc, s[i]))
    ELSE IF i + 1 > Len(s) THEN Err
    ELSE IF s[i + 1] \in {"\"", "\\", "/", "b", "f", "n", "r", "t"}
         THEN ParseStr(s, i + 2, Append(acc, SimpleEscape(s[i + 1])))
    ELSE IF s[i + 1] # "u" \/ ~HasHex4(s, i + 2) THEN Err
    ELSE LET n == Hex4(s, i + 2)
         IN  IF n >= 56320 /\ n <= 57343 THEN Err           \* lone trailing surrogate
             ELSE IF n < 55296 \/ n > 56319
                  THEN ParseStr(s, i + 6, Append(acc, CodePointChar(n)))
             ELSE IF /\ i + 7 <= Len(s)
                     /\ s[i + 6] = "\\"
                     /\ s[i + 7] = "u"
                     /\ HasHex4(s, i + 8)
                     /\ Hex4(s, i + 8) >= 56320
                     /\ Hex4(s, i + 8) <= 57343
                  THEN ParseStr(s, i + 12, Append(acc, OtherChar))
             ELSE Err

RECURSIVE ParseElements(_, _, _, _)
\* SeqAccess::next_element_seed with String elements, until the closing "]"
ParseElements(s, i, is_first, acc) ==
    LET j == SkipWhitespace(s, i)
    IN  IF j > Len(s) THEN Err
        ELSE IF s[j] = "]" THEN [ok |-> TRUE, val |-> acc, next |-> j + 1]
        ELSE IF ~is_first /\ s[j] # "," THEN Err
        ELSE LET k == IF is_first THEN j ELSE SkipWhitespace(s, j + 1)
             IN  IF k > Len(s) \/ s[k] # "\"" THEN Err
                 ELSE \* e, the element parsed, is bound as a value
                      CHOOSE r \in
                          {IF ~e.ok THEN Err
                           ELSE ParseElements(s, e.next, FALSE, Append(acc, e.val)) :
                               e \in {ParseStr(s, k + 1, <<>>)}} : TRUE

\* Ok(array of strings) or Err
JsonStringArray(s) ==
    LET j == SkipWhitespace(s, 1)
    IN  IF j > Len(s) \/ s[j] # "[" THEN None
        ELSE LET r == ParseElements(s, j + 1, TRUE, <<>>)
             IN  IF ~r.ok THEN None
                 ELSE IF SkipWhitespace(s, r.next) <= Len(s) THEN None
                 ELSE Some(r.val)

(***************************************************************************)
(* The setting keys                                                        *)
(***************************************************************************)
KeyMembers == "sawtooth.consensus.pbft.members"
KeyBlockPublishingDelay == "sawtooth.consensus.pbft.block_publishing_delay"
KeyIdleTimeout == "sawtooth.consensus.pbft.idle_timeout"
KeyCommitTimeout == "sawtooth.consensus.pbft.commit_timeout"
KeyViewChangeDuration == "sawtooth.consensus.pbft.view_change_duration"
KeyForcedViewChangePeriod == "sawtooth.consensus.pbft.forced_view_change_period"
KeyStorage == "sawtooth.consensus.pbft.storage"

\* the keys load_settings asks the service for
RequestedKeys == {KeyMembers, KeyBlockPublishingDelay, KeyIdleTimeout,
                  KeyCommitTimeout, KeyViewChangeDuration,
                  KeyForcedViewChangePeriod}
OptionalKeys == RequestedKeys \ {KeyMembers}

(***************************************************************************)
(* PbftConfig::default                                                     *)
(***************************************************************************)
PbftConfig_default ==
    [members |-> <<>>,
     block_publishing_delay |-> from_millis(200),
     update_recv_timeout |-> from_millis(10),
     exponential_retry_base |-> from_millis(100),
     exponential_retry_max |-> from_secs(60),
     idle_timeout |-> from_secs(30),
     commit_timeout |-> from_secs(30),
     view_change_duration |-> from_secs(5),
     forced_view_change_period |-> 30,
     max_log_size |-> 1000,
     storage |-> <<"m", "e", "m", "o", "r", "y">>]

\* get_members_from_settings with filter_map(|s| hex::decode(s).ok()): an
\* element that is not hex is dropped instead of being fatal
get_members_dropping_bad_hex(settings) ==
    LET members_setting_value == Get(settings, KeyMembers)
    IN  IF ~IsSome(members_setting_value) THEN None
        ELSE LET parsed == JsonStringArray(members_setting_value[1])
             IN  IF ~IsSome(parsed) THEN None
                 ELSE LET good == SelectSeq(parsed[1], LAMBDA m : IsSome(HexDecode(m)))
                      IN  Some([i \in 1..Len(good) |-> HexDecode(good[i])[1]])

RECURSIVE Dedup(_, _)
Dedup(seq, seen) ==
    IF seq = <<>> THEN <<>>
    ELSE IF Head(seq) \in seen THEN Dedup(Tail(seq), seen)
    ELSE <<Head(seq)>> \o Dedup(Tail(seq), seen \cup {Head(seq)})

\* get_members_from_settings with the array read as a set of distinct strings
get_members_deduplicated(settings) ==
    LET members_setting_value == Get(settings, KeyMembers)
    IN  IF ~IsSome(members_setting_value) THEN None
        ELSE LET parsed == JsonStringArray(members_setting_value[1])
             IN  IF ~IsSome(parsed) THEN None
                 ELSE LET members == Dedup(parsed[1], {})
                      IN  IF \E i \in 1..Len(members) : ~IsSome(HexDecode(members[i]))
                          THEN None
                          ELSE Some([i \in 1..Len(members) |-> HexDecode(members[i])[1]])

(***************************************************************************)
(* get_members_from_settings: Some(members), or None where the code panics *)
(***************************************************************************)
get_members_from_settings(settings) ==
    LET members_setting_value == Get(settings, KeyMembers)
        Decoded(members) ==
            IF \E i \in 1..Len(members) : ~IsSome(HexDecode(members[i]))
            THEN None
            ELSE Some([i \in 1..Len(members) |-> HexDecode(members[i])[1]])
    IN  IF ~IsSome(members_setting_value) THEN None
        ELSE \* parsed, the result of serde_json::from_str, is bound as a value
             CHOOSE result \in
                 {IF ~IsSome(parsed) THEN None ELSE Decoded(parsed[1]) :
                      parsed \in {JsonStringArray(members_setting_value[1])}} : TRUE

(***************************************************************************)
(* merge_setting_if_set_and_map and its three instances.  Each returns the *)
(* value the field holds afterwards.  map names the closure passed in.     *)
(***************************************************************************)
ApplyMap(map, setting_value) ==
    CASE map = "identity" -> setting_value
      [] map = "Duration::from_secs" -> from_secs(setting_value)
      [] map = "Duration::from_millis" -> from_millis(setting_value)

\* merge_setting_if_set_and_map with setting.parse().unwrap_or_default(): a
\* value that does not parse is taken as 0
merge_setting_unparsed_as_zero(settings_map, setting_field, setting_key, map) ==
    LET setting == Get(settings_map, setting_key)
    IN  IF IsSome(setting)
        THEN IF IsSome(ParseU64(setting[1]))
             THEN ApplyMap(map, ParseU64(setting[1])[1])
             ELSE ApplyMap(map, 0)
        ELSE setting_field

merge_setting_if_set_and_map(settings_map, setting_field, setting_key, map) ==
    LET setting == Get(settings_map, setting_key)
    IN  IF IsSome(setting) /\ IsSome(ParseU64(setting[1]))
        THEN ApplyMap(map, ParseU64(setting[1])[1])
        ELSE setting_field

merge_setting_if_set(settings_map, setting_field, setting_key) ==
    merge_setting_if_set_and_map(settings_map, setting_field, setting_key, "identity")

\* merge_secs_setting_if_set with Duration::from_millis passed as the map
merge_secs_setting_as_millis(settings_map, setting_field, setting_key) ==
    merge_setting_if_set_and_map(settings_map, setting_field, setting_key,
                                 "Duration::from_millis")

merge_secs_setting_if_set(settings_map, setting_field, setting_key) ==
    merge_setting_if_set_and_map(settings_map, setting_field, setting_key,
                                 "Duration::from_secs")

merge_millis_setting_if_set(settings_map, setting_field, setting_key) ==
    merge_setting_if_set_and_map(settings_map, setting_field, setting_key,
                                 "Duration::from_millis")

(***************************************************************************)
(* The statements of load_settings after the fetch, in program order.      *)
(* Each takes the position, the record and the fetched mapping to the next *)
(* position and record.                                                    *)
(***************************************************************************)
\* StmtMembers with self.members.extend(..) in place of the assignment
StmtMembersExtend(c, s) ==
    IF IsSome(get_members_from_settings(s))
    THEN [pc |-> "BlockPublishingDelay",
          config |-> [c EXCEPT !.members = @ \o get_members_from_settings(s)[1]]]
    ELSE [pc |-> "Fatal", config |-> c]

StmtMembers(c, s) ==
    IF IsSome(get_members_from_settings(s))
    THEN [pc |-> "BlockPublishingDelay",
          config |-> [c EXCEPT !.members = get_members_from_settings(s)[1]]]
    ELSE [pc |-> "Fatal", config |-> c]

StmtBlockPublishingDelay(c, s) ==
    [pc |-> "IdleTimeout",
     config |-> [c EXCEPT !.block_publishing_delay =
                    merge_millis_setting_if_set(s, @, KeyBlockPublishingDelay)]]

StmtIdleTimeout(c, s) ==
    [pc |-> "CommitTimeout",
     config |-> [c EXCEPT !.idle_timeout =
                    merge_secs_setting_if_set(s, @, KeyIdleTimeout)]]

StmtCommitTimeout(c, s) ==
    [pc |-> "ViewChangeDuration",
     config |-> [c EXCEPT !.commit_timeout =
                    merge_secs_setting_if_set(s, @, KeyCommitTimeout)]]

\* StmtViewChangeDuration with the check of lines 152-157 left out
StmtViewChangeDurationUnchecked(c, s) ==
    [pc |-> "ForcedViewChangePeriod",
     config |-> [c EXCEPT !.view_change_duration =
                    merge_secs_setting_if_set(s, @, KeyViewChangeDuration)]]

StmtViewChangeDuration(c, s) ==
    [pc |-> "Check",
     config |-> [c EXCEPT !.view_change_duration =
                    merge_secs_setting_if_set(s, @, KeyViewChangeDuration)]]

StmtCheck(c, s) ==
    IF DurationGe(c.block_publishing_delay, c.idle_timeout)
    THEN [pc |-> "Fatal", config |-> c]
    ELSE [pc |-> "ForcedViewChangePeriod", config |-> c]

\* StmtForcedViewChangePeriod followed by a merge of the storage setting, which
\* the doc comment of load_settings lists (line 100)
StmtForcedViewChangePeriodAndStorage(c, s) ==
    [pc |-> "Ready",
     config |-> [c EXCEPT !.forced_view_change_period =
                              merge_setting_if_set(s, @, KeyForcedViewChangePeriod),
                          !.storage = IF KeyStorage \in DOMAIN s
                                      THEN s[KeyStorage] ELSE @]]

StmtForcedViewChangePeriod(c, s) ==
    [pc |-> "Ready",
     config |-> [c EXCEPT !.forced_view_change_period =
                    merge_setting_if_set(s, @, KeyForcedViewChangePeriod)]]

Positions == {"Members", "BlockPublishingDelay", "IdleTimeout", "CommitTimeout",
              "ViewChangeDuration", "Check", "ForcedViewChangePeriod"}

Stmt(p, c, s) ==
    CASE p = "Members" -> StmtMembers(c, s)
      [] p = "BlockPublishingDelay" -> StmtBlockPublishingDelay(c, s)
      [] p = "IdleTimeout" -> StmtIdleTimeout(c, s)
      [] p = "CommitTimeout" -> StmtCommitTimeout(c, s)
      [] p = "ViewChangeDuration" -> StmtViewChangeDuration(c, s)
      [] p = "Check" -> StmtCheck(c, s)
      [] p = "ForcedViewChangePeriod" -> StmtForcedViewChangePeriod(c, s)

RECURSIVE Run(_, _, _)
Run(p, c, s) ==
    IF p \in Positions
    THEN \* r, what the statement at p leaves, is bound as a value
         CHOOSE end \in {Run(r.pc, r.config, s) : r \in {Stmt(p, c, s)}} : TRUE
    ELSE [pc |-> p, config |-> c]

\* load_settings on record c once the service has returned s: how it ends
\* ("Ready" or "Fatal") and the record it leaves
load_settings(c, s) == Run("Members", c, s)

(***************************************************************************)
(* Inputs: the mappings the settings service can return.                   *)
(***************************************************************************)
MaxFailures == 2
MaxMembers == 3

RECURSIVE U64ToString(_)
\* <u64 as Display>::fmt
U64ToString(n) ==
    IF n < 10 THEN <<DecDigits[n + 1]>>
    ELSE U64ToString(n \div 10) \o <<DecDigits[(n % 10) + 1]>>

RECURSIVE HexEncode(_)
\* hex::encode
HexEncode(bytes) ==
    IF bytes = <<>> THEN <<>>
    ELSE <<HexLower[(Head(bytes) \div 16) + 1], HexLower[(Head(bytes) % 16) + 1]>>
         \o HexEncode(Tail(bytes))

RECURSIVE JoinQuoted(_)
JoinQuoted(strings) ==
    IF strings = <<>> THEN <<>>
    ELSE <<"\"">> \o Head(strings) \o <<"\"">>
         \o (IF Len(strings) > 1 THEN <<",">> ELSE <<>>)
         \o JoinQuoted(Tail(strings))

\* serde_json::to_string of a Vec<String> whose strings need no escaping
JsonOfStrings(strings) == <<"[">> \o JoinQuoted(strings) \o <<"]">>

JsonOfPeers(peers) == JsonOfStrings([i \in 1..Len(peers) |-> HexEncode(peers[i])])

PeerIds == {<<10>>, <<255, 1>>}
PeerSeqs == UNION {[1..n -> PeerIds] : n \in 0..MaxMembers}

\* members values that are JSON arrays of hex strings, with the peers they name
WrittenMembers ==
    { [raw |-> <<" ", "[", "\t", "\"", "0", "A", "\"", " ", ",", "\n",
                 "\"", "F", "f", "0", "1", "\"", "\r", "]", "\n">>,
       peers |-> <<<<10>>, <<255, 1>>>>],
      [raw |-> <<"[", "\"", "\\", "u", "0", "0", "3", "0", "a", "\"", ",",
                 "\"", "0", "a", "\"", "]">>,
       peers |-> <<<<10>>, <<10>>>>],
      [raw |-> <<"[", "\"", "\"", "]">>, peers |-> <<<<>>>>] }
ValidMembers ==
    {[raw |-> JsonOfPeers(ps), peers |-> ps] : ps \in PeerSeqs} \cup WrittenMembers

\* members values that are not a JSON array of strings
NotJsonArrays ==
    { <<"n", "o", "t", " ", "j", "s", "o", "n">>,
      <<>>,
      <<"n", "u", "l", "l">>,
      <<"\"", "0", "a", "\"">>,
      <<"[", "1", "0", "]">>,
      <<"[", "\"", "0", "a", "\"", ",", "]">>,
      <<"[", "\"", "0", "a", "\"">>,
      <<"[", "\"", "0", "a", "\"", "]", "]">>,
      <<"[", "\"", "0", "a", "\"", " ", "\"", "0", "a", "\"", "]">>,
      <<"[", "\"", "\\", "x", "\"", "]">>,
      <<"[", "\"", "<U+0001>", "\"", "]">>,
      <<"[", "\"", "0", "a", "\"", ",", "\"", "<U+001F>", "\"", "]">>,
      <<"[", "\"", "0", "a", "\n", "\"", "]">>,
      <<"[", "[", "\"", "0", "a", "\"", "]", "]">> }

\* JSON arrays of strings with an element that is not a hex string
BadHexArrays ==
    { JsonOfStrings(<<<<"0", "g">>>>),
      JsonOfStrings(<<<<"0", "a">>, <<"a">>>>),
      JsonOfStrings(<<<<"0", "x", "0", "a">>, <<"0", "a">>>>),
      JsonOfStrings(<<<<"0", "a", " ">>>>),
      <<"[", "\"", "0", "a", "\\", "n", "\"", "]">>,
      <<"[", "\"", "\\", "u", "0", "0", "0", "1", "\"", "]">>,
      <<"[", "\"", "\\", "u", "0", "0", "e", "9", "\"", "]">> }

Abc == <<"a", "b", "c">>
\* one above u64::MAX
TwoToThe64 == <<"1", "8", "4", "4", "6", "7", "4", "4", "0", "7",
                "3", "7", "0", "9", "5", "5", "1", "6", "1", "6">>

\* values of an optional key that do not parse as u64
Unparsable ==
    { Abc, <<>>, <<"-", "1">>, <<"1", " ", "2">>, <<"1", ".", "5">>, <<"+">>,
      TwoToThe64 }

\* the numbers written into optional keys, and the ways each is written
Numbers == {0, 1, 7, 12, 31, 999, 1000, 30000}
Written(n) == {U64ToString(n), <<"+">> \o U64ToString(n),
               <<"0", "0">> \o U64ToString(n)}

Opt(values) == {None} \cup {Some(v) : v \in values}

\* one Option per key: block_publishing_delay against idle_timeout
ChoicesOfDelays ==
    [members : {Some(JsonOfPeers(<<<<10>>, <<255, 1>>>>)), Some(JsonOfPeers(<<>>))},
     block_publishing_delay :
         Opt({Abc, U64ToString(12), U64ToString(999), U64ToString(1000),
              U64ToString(30000)}),
     idle_timeout :
         Opt({<<"-", "1">>, U64ToString(0), U64ToString(1), U64ToString(31)}),
     commit_timeout : {None},
     view_change_duration : {None},
     forced_view_change_period : Opt({<<"0", "0">> \o U64ToString(7)}),
     storage : {None}]

\* the fields that no check reads
ChoicesOfOthers ==
    [members : {Some(JsonOfPeers(<<<<10>>>>))},
     block_publishing_delay : Opt({U64ToString(999)}),
     idle_timeout : {Some(<<"+">> \o U64ToString(1))},
     commit_timeout : Opt({<<>>, <<"+">> \o U64ToString(7)}),
     view_change_duration : Opt({<<"1", " ", "2">>, U64ToString(12)}),
     forced_view_change_period : Opt({TwoToThe64, U64ToString(0)}),
     storage : {None}]

\* the members value
ChoicesOfMembers ==
    [members : Opt({m.raw : m \in ValidMembers} \cup NotJsonArrays \cup BadHexArrays),
     block_publishing_delay : {None},
     idle_timeout : {None},
     commit_timeout : {None},
     view_change_duration : {None},
     forced_view_change_period : {None},
     storage : Opt({<<"d", "i", "s", "k">>})]

\* no members, or bad members, with other keys present
ChoicesOfBadMembers ==
    [members : Opt({<<"n", "o", "t", " ", "j", "s", "o", "n">>,
                    JsonOfStrings(<<<<"0", "g">>>>)}),
     block_publishing_delay : Opt({U64ToString(999)}),
     idle_timeout : Opt({U64ToString(1)}),
     commit_timeout : {Some(Abc)},
     view_change_duration : {None},
     forced_view_change_period : {Some(U64ToString(12))},
     storage : {None}]

Choices ==
    ChoicesOfDelays \cup ChoicesOfOthers \cup ChoicesOfMembers \cup ChoicesOfBadMembers

SettingsOf(ch) ==
    LET pairs == {<<KeyMembers, ch.members>>,
                  <<KeyBlockPublishingDelay, ch.block_publishing_delay>>,
                  <<KeyIdleTimeout, ch.idle_timeout>>,
                  <<KeyCommitTimeout, ch.commit_timeout>>,
                  <<KeyViewChangeDuration, ch.view_change_duration>>,
                  <<KeyForcedViewChangePeriod, ch.forced_view_change_period>>,
                  <<KeyStorage, ch.storage>>}
        present == {p \in pairs : IsSome(p[2])}
    IN  [k \in {p[1] : p \in present} |-> (CHOOSE p \in present : p[1] = k)[2][1]]

ChainSettings == {SettingsOf(ch) : ch \in Choices}

\* HashMap::insert and HashMap::remove
Insert(map, key, value) ==
    [k \in DOMAIN map \cup {key} |-> IF k = key THEN value ELSE map[k]]
Remove(map, key) == [k \in DOMAIN map \ {key} |-> map[k]]
EmptyMap == [k \in {} |-> <<>>]

(***************************************************************************)
(* The state                                                               *)
(***************************************************************************)
VARIABLES
    config,     \* the PbftConfig record passed as &mut self
    pc,         \* where the caller or load_settings stands
    chain,      \* the on-chain settings service.get_settings answers from
    settings,   \* the local settings of load_settings
    calls,      \* calls of service.get_settings made by the load under way
    failures,   \* how many of them failed
    second,     \* the load under way (or finished last) is the second one
    start,      \* config as it was when the load under way started
    first,      \* Some(config and settings of the first load, once it returned)
    changed     \* the on-chain settings were changed after the first load

vars == <<config, pc, chain, settings, calls, failures, second, start, first, changed>>

Init ==
    /\ config = PbftConfig_default
    /\ pc = "Defaulted"
    /\ chain \in ChainSettings
    /\ settings = EmptyMap
    /\ calls = 0
    /\ failures = 0
    /\ second = FALSE
    /\ start = PbftConfig_default
    /\ first = None
    /\ changed = FALSE

(***************************************************************************)
(* The caller                                                              *)
(***************************************************************************)
\* config.load_settings(block_id, service) is called
LoadSettings ==
    /\ pc = "Defaulted" \/ (pc = "Ready" /\ ~second)
    /\ pc' = "Fetching"
    /\ start' = config
    /\ calls' = 0
    /\ failures' = 0
    /\ second' = IsSome(first)
    /\ UNCHANGED <<config, chain, settings, first, changed>>

\* after a load the caller builds a new record with PbftConfig::default()
Default ==
    /\ pc = "Ready" /\ ~second
    /\ config' = PbftConfig_default
    /\ pc' = "Defaulted"
    /\ UNCHANGED <<chain, settings, calls, failures, second, start, first, changed>>

\* between two loads the value of one optional setting changes on chain
ChangeSettings ==
    /\ pc \in {"Ready", "Defaulted"} /\ IsSome(first) /\ ~second /\ ~changed
    /\ \E k \in OptionalKeys :
           /\ Get(chain, k) # Some(Abc)
           /\ chain' = Insert(chain, k, Abc)
    /\ changed' = TRUE
    /\ UNCHANGED <<config, pc, settings, calls, failures, second, start, first>>

(***************************************************************************)
(* retry_until_ok around service.get_settings, lines 107-123               *)
(***************************************************************************)
\* GetSettingsErr with the failure surfaced instead of retried
GetSettingsErrGivesUp ==
    /\ pc = "Fetching"
    /\ failures < MaxFailures
    /\ calls' = calls + 1
    /\ failures' = failures + 1
    /\ pc' = "Fatal"
    /\ UNCHANGED <<config, chain, settings, second, start, first, changed>>

\* the call fails: retry_until_ok sleeps and calls again
GetSettingsErr ==
    /\ pc = "Fetching"
    /\ failures < MaxFailures
    /\ calls' = calls + 1
    /\ failures' = failures + 1
    /\ UNCHANGED <<config, pc, chain, settings, second, start, first, changed>>

\* the call succeeds: retry_until_ok returns the mapping
GetSettingsOk ==
    /\ pc = "Fetching"
    /\ calls' = calls + 1
    /\ settings' = chain
    /\ pc' = "Members"
    /\ UNCHANGED <<config, chain, failures, second, start, first, changed>>

(***************************************************************************)
(* The statements of load_settings, lines 127-164                          *)
(***************************************************************************)
Apply(r) ==
    /\ pc' = r.pc
    /\ config' = r.config
    /\ first' = IF r.pc = "Ready" /\ ~second
                THEN Some([config |-> r.config, settings |-> settings])
                ELSE first
    /\ UNCHANGED <<chain, settings, calls, failures, second, start, changed>>

GetMembers ==
    /\ pc = "Members"
    /\ Apply(StmtMembers(config, settings))

MergeBlockPublishingDelay ==
    /\ pc = "BlockPublishingDelay"
    /\ Apply(StmtBlockPublishingDelay(config, settings))

MergeIdleTimeout ==
    /\ pc = "IdleTimeout"
    /\ Apply(StmtIdleTimeout(config, settings))

MergeCommitTimeout ==
    /\ pc = "CommitTimeout"
    /\ Apply(StmtCommitTimeout(config, settings))

MergeViewChangeDuration ==
    /\ pc = "ViewChangeDuration"
    /\ Apply(StmtViewChangeDuration(config, settings))

CheckDelay ==
    /\ pc = "Check"
    /\ Apply(StmtCheck(config, settings))

MergeForcedViewChangePeriod ==
    /\ pc = "ForcedViewChangePeriod"
    /\ Apply(StmtForcedViewChangePeriod(config, settings))

Next ==
    \/ LoadSettings
    \/ Default
    \/ ChangeSettings
    \/ GetSettingsErr
    \/ GetSettingsOk
    \/ GetMembers
    \/ MergeBlockPublishingDelay
    \/ MergeIdleTimeout
    \/ MergeCommitTimeout
    \/ MergeViewChangeDuration
    \/ CheckDelay
    \/ MergeForcedViewChangePeriod

Spec == Init /\ [][Next]_vars

\* the service succeeds in the end, and load_settings runs on
LoadStep ==
    \/ GetMembers
    \/ MergeBlockPublishingDelay
    \/ MergeIdleTimeout
    \/ MergeCommitTimeout
    \/ MergeViewChangeDuration
    \/ CheckDelay
    \/ MergeForcedViewChangePeriod

\* the retries are followed on every mapping but those that only vary the way
\* the members array is written
LiveSettings ==
    {SettingsOf(ch) :
         ch \in ChoicesOfDelays \cup ChoicesOfOthers \cup ChoicesOfBadMembers}
LiveInit == Init /\ chain \in LiveSettings

LiveSpec ==
    LiveInit /\ [][Next]_vars /\ WF_vars(GetSettingsOk) /\ WF_vars(LoadStep)

(***************************************************************************)
(* What the inputs mean, stated apart from the parsers: every value given  *)
(* to an optional key is either in Unparsable or one of Written(n).        *)
(***************************************************************************)
Meaning(v) ==
    IF v \in Unparsable THEN None
    ELSE Some(CHOOSE n \in Numbers : v \in Written(n))

\* the number mapping s gives key k, if it gives one
Given(s, k) == IF k \in DOMAIN s THEN Meaning(s[k]) ELSE None

Millis(d) == d.secs * 1000 + d.nanos \div 1000000
WholeMillis(d) == d.nanos % 1000000 = 0 /\ d.nanos >= 0 /\ d.nanos < 1000000000

FieldOf(c, k) ==
    CASE k = KeyBlockPublishingDelay -> c.block_publishing_delay
      [] k = KeyIdleTimeout -> c.idle_timeout
      [] k = KeyCommitTimeout -> c.commit_timeout
      [] k = KeyViewChangeDuration -> c.view_change_duration
      [] k = KeyForcedViewChangePeriod -> c.forced_view_change_period

\* the load under way has its mapping
Fetched == pc \in Positions \cup {"Ready", "Fatal"}
\* the check of lines 152-157 has passed
CheckPassed == pc \in {"ForcedViewChangePeriod", "Ready"}

MembersGood(s) ==
    KeyMembers \in DOMAIN s /\ \E m \in ValidMembers : s[KeyMembers] = m.raw
MembersBad(s) ==
    KeyMembers \notin DOMAIN s \/ s[KeyMembers] \in NotJsonArrays \cup BadHexArrays

\* the merged values of the two settings the check compares, in milliseconds
MergedDelayMillis ==
    IF IsSome(Given(settings, KeyBlockPublishingDelay))
    THEN Given(settings, KeyBlockPublishingDelay)[1]
    ELSE Millis(start.block_publishing_delay)
MergedIdleMillis ==
    IF IsSome(Given(settings, KeyIdleTimeout))
    THEN Given(settings, KeyIdleTimeout)[1] * 1000
    ELSE Millis(start.idle_timeout)

(***************************************************************************)
(* C1: a load gets past the check of block_publishing_delay against        *)
(* idle_timeout only if the merged block_publishing_delay (milliseconds)   *)
(* is strictly less than the merged idle_timeout (seconds); with valid     *)
(* members it ends Fatal exactly when the delay is greater or equal, also  *)
(* when both values parsed; the defaults, 200 ms and 30 s, pass.           *)
(***************************************************************************)
C1_DelayBelowIdleTimeout ==
    /\ CheckPassed =>
          /\ MergedDelayMillis < MergedIdleMillis
          /\ Millis(config.block_publishing_delay) < Millis(config.idle_timeout)
    /\ (pc = "Fatal" /\ MembersGood(settings)) =>
          MergedDelayMillis >= MergedIdleMillis
    /\ (Fetched /\ start = PbftConfig_default
        /\ KeyBlockPublishingDelay \notin DOMAIN settings
        /\ KeyIdleTimeout \notin DOMAIN settings) =>
          (MergedDelayMillis = 200 /\ MergedIdleMillis = 30000
           /\ (MembersGood(settings) => pc # "Fatal"))

\* both values parsed, 1000 ms against 1 s, and the load ended Fatal
C1_Witness ==
    /\ pc = "Fatal"
    /\ MembersGood(settings)
    /\ Get(settings, KeyBlockPublishingDelay) = Some(U64ToString(1000))
    /\ Get(settings, KeyIdleTimeout) = Some(U64ToString(1))

(***************************************************************************)
(* C2: after a load that returned normally, members is not empty.          *)
(***************************************************************************)
C2_MembersNonEmpty == pc = "Ready" => config.members # <<>>

(***************************************************************************)
(* C3: when the members key is absent, or its value is not a JSON array of *)
(* strings, or an element of the array is not a hex string, the load never *)
(* gets past the members statement and ends Fatal, whatever the other keys *)
(* hold.                                                                   *)
(***************************************************************************)
C3_BadMembersFatal ==
    (Fetched /\ MembersBad(settings)) =>
        /\ pc \in {"Members", "Fatal"}
        /\ load_settings(start, settings).pc = "Fatal"

\* an element that is not hex, other keys present, and the load ended Fatal
C3_Witness ==
    /\ pc = "Fatal"
    /\ Get(settings, KeyMembers) = Some(JsonOfStrings(<<<<"0", "g">>>>))
    /\ Get(settings, KeyForcedViewChangePeriod) = Some(U64ToString(12))
    /\ Get(settings, KeyIdleTimeout) = Some(U64ToString(1))

(***************************************************************************)
(* C4: when the members value is a JSON array of hex strings, then from    *)
(* the members statement on members is the sequence of the decoded         *)
(* strings: same length, same order, duplicates kept, and whatever the     *)
(* record held before is replaced.                                         *)
(***************************************************************************)
C4_MembersDecodedInOrder ==
    (Fetched /\ pc \notin {"Members", "Fatal"}) =>
        \A m \in ValidMembers :
            Get(settings, KeyMembers) = Some(m.raw) =>
                /\ Len(config.members) = Len(m.peers)
                /\ \A i \in 1..Len(m.peers) : config.members[i] = m.peers[i]

\* a second load on a record that held members: three members, one twice
C4_Witness ==
    /\ pc = "Ready"
    /\ second
    /\ start.members # <<>>
    /\ Get(settings, KeyMembers) = Some(JsonOfPeers(<<<<255, 1>>, <<10>>, <<255, 1>>>>))
    /\ config.members = <<<<255, 1>>, <<10>>, <<255, 1>>>>

(***************************************************************************)
(* C5: an optional key whose value does not parse leaves its field as it   *)
(* was before the load, and the load ends as it would without the key:     *)
(* same end, Ready or Fatal, and same record.                              *)
(***************************************************************************)
C5_UnparsableAsAbsent ==
    Fetched =>
        \A k \in OptionalKeys :
            (k \in DOMAIN settings /\ settings[k] \in Unparsable) =>
                /\ FieldOf(config, k) = FieldOf(start, k)
                /\ pc \in {"Ready", "Fatal"} =>
                      [pc |-> pc, config |-> config]
                          = load_settings(start, Remove(settings, k))

\* commit_timeout was 7 s before the load, the key now holds "abc"
C5_Witness ==
    /\ pc = "Ready"
    /\ Get(settings, KeyCommitTimeout) = Some(Abc)
    /\ start.commit_timeout = [secs |-> 7, nanos |-> 0]
    /\ config.commit_timeout = [secs |-> 7, nanos |-> 0]

(***************************************************************************)
(* C6: the service fails N times and then succeeds: the load leaves the    *)
(* fetch after N + 1 calls, a failure never ends the load, the record is   *)
(* not written during the fetch, the mapping used is the one returned, the *)
(* end depends on that mapping and not on N, and every load ends Ready or  *)
(* Fatal.                                                                  *)
(***************************************************************************)
C6_RetryUntilOk ==
    /\ [](Fetched => calls = failures + 1)
    /\ [](pc = "Fetching" => calls = failures)
    /\ [][pc = "Fetching" =>
             /\ config' = config
             /\ pc' \in {"Fetching", "Members"}
             /\ pc' = "Members" => settings' = chain]_vars
    /\ [](pc \in {"Ready", "Fatal"} =>
             [pc |-> pc, config |-> config] = load_settings(start, settings))
    /\ (pc = "Fetching") ~> (pc \in {"Ready", "Fatal"})

\* two failures, a third call, and the load returned
C6_Witness ==
    /\ pc = "Ready"
    /\ failures = 2
    /\ calls = 3
    /\ config # start

(***************************************************************************)
(* C7: a second load against the same mapping, on the loaded record or on  *)
(* a new record built with the defaults, returns normally and leaves a     *)
(* record equal to the first one in every field.                           *)
(***************************************************************************)
C7_Idempotent ==
    (second /\ Fetched /\ settings = first[1].settings) =>
        /\ pc # "Fatal"
        /\ pc = "Ready" => config = first[1].config

\* the second load ran on the loaded record and merged something
C7_Witness ==
    /\ pc = "Ready"
    /\ second
    /\ settings = first[1].settings
    /\ start = first[1].config
    /\ config = start
    /\ config # PbftConfig_default
    /\ IsSome(Given(settings, KeyIdleTimeout))

(***************************************************************************)
(* C8: after a load that returned normally, the field of every optional    *)
(* key whose value parses as n is n in the key's unit (milliseconds for    *)
(* block_publishing_delay, seconds for the three timeouts, a plain number  *)
(* for forced_view_change_period), and the field of every other optional   *)
(* key is as it was before the load.                                       *)
(***************************************************************************)
C8_ParsedValuesInUnits ==
    pc = "Ready" =>
        /\ \A k \in OptionalKeys :
              ~IsSome(Given(settings, k)) => FieldOf(config, k) = FieldOf(start, k)
        /\ \A n \in Numbers :
              /\ Given(settings, KeyBlockPublishingDelay) = Some(n) =>
                    /\ Millis(config.block_publishing_delay) = n
                    /\ WholeMillis(config.block_publishing_delay)
              /\ Given(settings, KeyIdleTimeout) = Some(n) =>
                    config.idle_timeout = [secs |-> n, nanos |-> 0]
              /\ Given(settings, KeyCommitTimeout) = Some(n) =>
                    config.commit_timeout = [secs |-> n, nanos |-> 0]
              /\ Given(settings, KeyViewChangeDuration) = Some(n) =>
                    config.view_change_duration = [secs |-> n, nanos |-> 0]
              /\ Given(settings, KeyForcedViewChangePeriod) = Some(n) =>
                    config.forced_view_change_period = n

\* all five keys present with values that parse
C8_Witness ==
    /\ pc = "Ready"
    /\ Given(settings, KeyBlockPublishingDelay) = Some(999)
    /\ Given(settings, KeyIdleTimeout) = Some(1)
    /\ Given(settings, KeyCommitTimeout) = Some(7)
    /\ Given(settings, KeyViewChangeDuration) = Some(12)
    /\ Given(settings, KeyForcedViewChangePeriod) = Some(0)
    /\ config.block_publishing_delay = [secs |-> 0, nanos |-> 999000000]
    /\ config.forced_view_change_period = 0

(***************************************************************************)
(* C9 as claimed: when the check of block_publishing_delay against         *)
(* idle_timeout is made, every optional field, forced_view_change_period   *)
(* too, has been merged (so that nothing is left to write after it).       *)
(***************************************************************************)
C9_AllMergedBeforeCheck ==
    pc = "Check" =>
        \A n \in Numbers :
            Given(settings, KeyForcedViewChangePeriod) = Some(n) =>
                config.forced_view_change_period = n

(***************************************************************************)
(* C9 amended: the steps of a load occur in the order fetch, members,      *)
(* block_publishing_delay, idle_timeout, commit_timeout,                   *)
(* view_change_duration, check, then Fatal or forced_view_change_period    *)
(* and Ready.  When the check is made, members and the four durations are  *)
(* merged and forced_view_change_period is not; the check writes nothing;  *)
(* after it only forced_view_change_period is written, and only when the   *)
(* check passed.                                                           *)
(***************************************************************************)
C9_CheckBeforeForcedViewChangePeriod ==
    /\ [][/\ pc = "Defaulted" => pc' \in {"Defaulted", "Fetching"}
          /\ pc = "Fetching" => pc' \in {"Fetching", "Members"}
          /\ pc = "Members" => pc' \in {"BlockPublishingDelay", "Fatal"}
          /\ pc = "BlockPublishingDelay" => pc' = "IdleTimeout"
          /\ pc = "IdleTimeout" => pc' = "CommitTimeout"
          /\ pc = "CommitTimeout" => pc' = "ViewChangeDuration"
          /\ pc = "ViewChangeDuration" => pc' = "Check"
          /\ pc = "Check" =>
                /\ pc' \in {"ForcedViewChangePeriod", "Fatal"}
                /\ config' = config
          /\ pc = "ForcedViewChangePeriod" =>
                /\ pc' = "Ready"
                /\ config' = [config EXCEPT !.forced_view_change_period =
                                                config'.forced_view_change_period]
          /\ pc = "Fatal" => FALSE]_vars
    /\ [](pc = "Check" =>
             /\ config.forced_view_change_period = start.forced_view_change_period
             /\ Millis(config.block_publishing_delay) = MergedDelayMillis
             /\ Millis(config.idle_timeout) = MergedIdleMillis
             /\ \A k \in {KeyCommitTimeout, KeyViewChangeDuration} :
                   FieldOf(config, k) =
                       IF IsSome(Given(settings, k))
                       THEN [secs |-> Given(settings, k)[1], nanos |-> 0]
                       ELSE FieldOf(start, k)
             /\ \A m \in ValidMembers :
                   Get(settings, KeyMembers) = Some(m.raw) => config.members = m.peers)
    /\ [](pc = "Fatal" =>
             config.forced_view_change_period = start.forced_view_change_period)

\* forced_view_change_period was written after the check, a duration before
C9_Witness ==
    /\ pc = "Ready"
    /\ config.forced_view_change_period # start.forced_view_change_period
    /\ config.block_publishing_delay # start.block_publishing_delay

(***************************************************************************)
(* C10: a load, with any number of retries and also when the mapping holds *)
(* a storage entry, leaves storage, max_log_size, update_recv_timeout,     *)
(* exponential_retry_base and exponential_retry_max as they were: the      *)
(* defaults "memory", 1000, 10 ms, 100 ms and 60 s.                        *)
(***************************************************************************)
C10_OtherFieldsUntouched ==
    /\ config.storage = start.storage
    /\ config.max_log_size = start.max_log_size
    /\ config.update_recv_timeout = start.update_recv_timeout
    /\ config.exponential_retry_base = start.exponential_retry_base
    /\ config.exponential_retry_max = start.exponential_retry_max
    /\ config.storage = <<"m", "e", "m", "o", "r", "y">>
    /\ config.max_log_size = 1000
    /\ config.update_recv_timeout = [secs |-> 0, nanos |-> 10000000]
    /\ config.exponential_retry_base = [secs |-> 0, nanos |-> 100000000]
    /\ config.exponential_retry_max = [secs |-> 60, nanos |-> 0]

\* a load that returned after a retry, from a mapping with a storage entry
C10_Witness ==
    /\ pc = "Ready"
    /\ failures >= 1
    /\ Get(settings, KeyStorage) = Some(<<"d", "i", "s", "k">>)
    /\ config.members # <<>>

====
